---- MODULE Spec2Model ----
(***************************************************************************)
(* Model of the listing lifecycle of the SochAI backend: the Mongoose      *)
(* schema of a listing with its pre-save slug hook (src/models/Model.js    *)
(* lines 1-183) and the Express handlers that create, update, delete and   *)
(* review listings (src/models/Model.js lines 184-683).                    *)
(*                                                                         *)
(* Strings are sequences of one-character strings, so that lower-casing,   *)
(* trimming and the slug regular expressions are computed, not assumed.    *)
(* An optional value (a field that may be undefined) is a sequence of      *)
(* length 0 (undefined) or 1 (the value).                                  *)
(***************************************************************************)
EXTENDS Integers, Sequences, FiniteSets, TLC

(***************************************************************************)
(* Bounds of the model.                                                    *)
(***************************************************************************)
\* number of listing ids the store ever hands out (ids are never reused)
MaxIds == 2

(***************************************************************************)
(* Characters and strings.                                                 *)
(***************************************************************************)
UpperChars ==
  <<"A","B","C","D","E","F","G","H","I","J","K","L","M",
    "N","O","P","Q","R","S","T","U","V","W","X","Y","Z">>

LowerChars ==
  <<"a","b","c","d","e","f","g","h","i","j","k","l","m",
    "n","o","p","q","r","s","t","u","v","w","x","y","z">>

DigitChars == <<"0","1","2","3","4","5","6","7","8","9">>

Range(s) == {s[i] : i \in DOMAIN s}

UpperSet == Range(UpperChars)

\* String.prototype.toLowerCase on one character
LowerChar(c) ==
  IF c \in UpperSet
    THEN LowerChars[CHOOSE i \in DOMAIN UpperChars : UpperChars[i] = c]
    ELSE c

\* String.prototype.toLowerCase
ToLowerCase(s) == [i \in DOMAIN s |-> LowerChar(s[i])]

\* the character class [a-z0-9]
SlugChars == Range(LowerChars) \cup Range(DigitChars)

IsSlugChar(c) == c \in SlugChars

IsSpace(c) == c = " "

\* String.prototype.trim, used by Joi's .trim() and by Mongoose's trim: true
RECURSIVE TrimLeft(_)
TrimLeft(s) ==
  IF s # <<>> /\ IsSpace(Head(s)) THEN TrimLeft(Tail(s)) ELSE s

RECURSIVE TrimRight(_)
TrimRight(s) ==
  IF s # <<>> /\ IsSpace(s[Len(s)])
    THEN TrimRight(SubSeq(s, 1, Len(s) - 1))
    ELSE s

Trim(s) == TrimRight(TrimLeft(s))

\* .replace(/[^a-z0-9]+/g, '-'): every maximal run of characters outside
\* [a-z0-9] becomes one hyphen
RECURSIVE ReplaceRuns(_, _)
ReplaceRuns(s, inRun) ==
  IF s = <<>> THEN <<>>
  ELSE IF IsSlugChar(Head(s)) THEN <<Head(s)>> \o ReplaceRuns(Tail(s), FALSE)
  ELSE IF inRun THEN ReplaceRuns(Tail(s), TRUE)
  ELSE <<"-">> \o ReplaceRuns(Tail(s), TRUE)

\* .replace(/^-+|-+$/g, '')
RECURSIVE StripLeadingHyphens(_)
StripLeadingHyphens(s) ==
  IF s # <<>> /\ Head(s) = "-" THEN StripLeadingHyphens(Tail(s)) ELSE s

RECURSIVE StripTrailingHyphens(_)
StripTrailingHyphens(s) ==
  IF s # <<>> /\ s[Len(s)] = "-"
    THEN StripTrailingHyphens(SubSeq(s, 1, Len(s) - 1))
    ELSE s

\* the baseSlug of the pre-save hook
BaseSlug(name) ==
  StripTrailingHyphens(StripLeadingHyphens(ReplaceRuns(ToLowerCase(name), FALSE)))

\* the decimal digits of a counter, as the template literal prints them
RECURSIVE Decimal(_)
Decimal(n) ==
  IF n < 10 THEN <<DigitChars[n + 1]>>
  ELSE Decimal(n \div 10) \o <<DigitChars[(n % 10) + 1]>>

\* `${baseSlug}-${counter}`
Suffixed(baseSlug, counter) == baseSlug \o <<"-">> \o Decimal(counter)

(***************************************************************************)
(* Optional values.                                                        *)
(***************************************************************************)
Undefined == <<>>
Some(v) == <<v>>
IsDefined(o) == o # <<>>
ValueOf(o) == o[1]

(***************************************************************************)
(* Inputs.                                                                 *)
(***************************************************************************)
\* authenticated callers (req.user._id)
Users == {"u1", "u2"}

\* the length limit of a listing name
MaxNameLength == 100

NameGpt4Bang == <<"G","P","T"," ","4","!">>
NameGpt4Dash == <<"G","P","T","-","4">>
NameSymbols == <<"!","!">>
NamePadded == <<" ","G","P","T","-","4"," ">>
NameBlank == <<" ">>
NameTooLong == [i \in 1..(MaxNameLength + 1) |-> "x"]

\* the names a request body may carry: one valid name as typed and padded,
\* and the invalid ones
NameInputs == {NameGpt4Dash, NamePadded, NameBlank, NameTooLong}

\* the names of the requests that exercise slug generation: names with the
\* same base slug, a name with no letter or digit, and a padded name
SlugNameInputs == {NameGpt4Bang, NameGpt4Dash, NameSymbols, NamePadded}

Statuses == {"pending", "approved", "rejected"}

\* a request body of POST / and PUT /:id: the name key, a status key, an
\* uploadedBy key and a pricing key, each present or not; the other required
\* keys (shortDescription, category, provider) are present and valid in
\* every body
Payload(name, status) ==
  [name |-> name, status |-> status, uploadedBy |-> Undefined,
   pricing |-> Undefined]

\* a body that names an owner
OwnerPayload(name, owner) ==
  [name |-> name, status |-> Undefined, uploadedBy |-> owner,
   pricing |-> Undefined]

\* a body with a pricing key
PricedPayload(name, pricing) ==
  [name |-> name, status |-> Undefined, uploadedBy |-> Undefined,
   pricing |-> pricing]

Payloads ==
  {Payload(Some(n), Undefined) : n \in NameInputs}
    \cup {Payload(Undefined, Undefined),
          Payload(Some(NameGpt4Dash), Some("approved")),
          OwnerPayload(Some(NameGpt4Dash), Some("u2"))}

SlugPayloads == {Payload(Some(n), Undefined) : n \in SlugNameInputs}

ReasonTooNiche == <<"t","o","o"," ","n","i","c","h","e">>

\* the rejectionReason of a request body of PUT /admin/:id/status
ReasonInputs ==
  {Undefined, Some(<<>>), Some(<<" ">>), Some(ReasonTooNiche)}

\* the status and rejectionReason of a request body of PUT /admin/:id/status
Review(status, reason) == [status |-> status, reason |-> reason]

Reviews ==
  {Review("rejected", r) : r \in ReasonInputs}
    \cup {Review(s, r) : s \in {"approved", "pending"},
                         r \in {Undefined, Some(ReasonTooNiche)}}
    \cup {Review("archived", Some(ReasonTooNiche))}

\* the reviews of the requests that exercise slug generation
SlugReviews == {Review("approved", Undefined), Review("pending", Undefined)}

\* well-formed listing ids a request may name
Ids == 1..MaxIds

(***************************************************************************)
(* Responses: the HTTP status and the message of the JSON body.            *)
(***************************************************************************)
Response(status, message) == [status |-> status, message |-> message]

ValidationError == Response(400, "Validation error")
DuplicateError ==
  Response(400, "You have already uploaded a model with this name")
Created ==
  Response(201, "Model uploaded successfully and is pending review")
InternalError == Response(500, "Internal server error")
Unavailable ==
  Response(503, "Database connection is not ready. Please try again in a moment.")
NotFoundEdit ==
  Response(404, "Model not found or you do not have permission to edit it")
StateConflict ==
  Response(400, "Cannot edit an approved model. Contact support if changes are needed.")
Updated == Response(200, "Model updated successfully")
NotFoundDelete ==
  Response(404, "Model not found or you do not have permission to delete it")
Deleted == Response(200, "Model deleted successfully")
InvalidStatus ==
  Response(400, "Invalid status. Must be: pending, approved, or rejected")
ReasonRequired ==
  Response(400, "Rejection reason is required when rejecting a model")
NotFoundAdmin == Response(404, "Model not found")
\* the public queries answer 200 with data and no message
Success == Response(200, "")
NotFoundPublic == Response(404, "Model not found")
InvalidId == Response(400, "Invalid model ID format")
\* `Model ${status} successfully`
StatusSet(status) ==
  Response(200, CASE status = "pending" -> "Model pending successfully"
                  [] status = "approved" -> "Model approved successfully"
                  [] OTHER -> "Model rejected successfully")

(***************************************************************************)
(* Payload validation (the Joi schema).                                    *)
(***************************************************************************)
\* the name rule: Joi.string().trim().max(100).required()
NameError(name) ==
  \/ ~IsDefined(name)
  \/ Trim(ValueOf(name)) = <<>>
  \/ Len(Trim(ValueOf(name))) > MaxNameLength

\* Joi.string().valid('free', 'freemium', 'paid')
Pricings == {"free", "freemium", "paid"}
DefaultPricing == "freemium"

PricingError(pricing) == IsDefined(pricing) /\ ValueOf(pricing) \notin Pricings

\* a schema that lets undeclared keys through (.unknown(true))
JoiErrorAllowingUnknown(body) ==
  NameError(body.name) \/ PricingError(body.pricing)

\* a schema that lets an uploadedBy key through
JoiErrorAllowingOwner(body) ==
  NameError(body.name) \/ IsDefined(body.status) \/ PricingError(body.pricing)

\* modelSchema.validate(body).error: a Joi object rejects a key it does not
\* declare, and the schema declares no status key and no uploadedBy key
JoiError(body) ==
  \/ NameError(body.name)
  \/ IsDefined(body.status)
  \/ IsDefined(body.uploadedBy)
  \/ PricingError(body.pricing)

\* modelSchema.validate(body).value: the converted keys of the body, and
\* the default of a pricing key the body does not carry
JoiValue(body) ==
  [name |-> Trim(ValueOf(body.name)), status |-> body.status,
   uploadedBy |-> body.uploadedBy,
   pricing |-> IF IsDefined(body.pricing) THEN ValueOf(body.pricing)
                                          ELSE DefaultPricing]

(***************************************************************************)
(* The pre-save hook and the unique index on slug.                         *)
(***************************************************************************)
\* a loop whose first suffix is one too high (counter++ before the template)
RECURSIVE FindSlugCountingEarly(_, _, _, _, _)
FindSlugCountingEarly(baseSlug, slug, counter, id, store) ==
  IF \E j \in DOMAIN store : store[j].slug = slug /\ j # id
    THEN FindSlugCountingEarly(baseSlug, Suffixed(baseSlug, counter + 1),
                               counter + 1, id, store)
    ELSE slug

\* the while loop of the hook: the first candidate no other listing holds
RECURSIVE FindSlug(_, _, _, _, _)
FindSlug(baseSlug, slug, counter, id, store) ==
  IF \E j \in DOMAIN store : store[j].slug = slug /\ j # id
    THEN FindSlug(baseSlug, Suffixed(baseSlug, counter), counter + 1, id, store)
    ELSE slug

\* the setters of the slug path: trim: true, lowercase: true
SlugSetter(slug) == ToLowerCase(Trim(slug))

\* modelSchema.pre('save'); a slug that was never set is the empty string
\* here, !this.slug holds of both
PreSave(doc, id, nameModified, store) ==
  IF nameModified \/ doc.slug = <<>>
    THEN [doc EXCEPT !.slug =
            SlugSetter(FindSlug(BaseSlug(doc.name), BaseSlug(doc.name), 1, id, store))]
    ELSE doc

\* the unique index on slug accepts the write
SlugIndexAccepts(doc, id, store) ==
  ~ \E j \in DOMAIN store : j # id /\ store[j].slug = doc.slug

\* a save whose slug is the base slug as derived, with no collision probe
\* and no unique index
SaveWithoutSlugCheck(doc, id, nameModified, store) ==
  [ok |-> TRUE,
   doc |-> IF nameModified \/ doc.slug = <<>>
             THEN [doc EXCEPT !.slug = SlugSetter(BaseSlug(doc.name))]
             ELSE doc]

\* model.save(): the hook, then the write, which the unique index may refuse
Save(doc, id, nameModified, store) ==
  LET saved == PreSave(doc, id, nameModified, store)
  IN  [ok |-> SlugIndexAccepts(saved, id, store), doc |-> saved]

(***************************************************************************)
(* State.                                                                  *)
(***************************************************************************)
VARIABLES
  listings,        \* the Model collection: id -> document
  uploadedModels,  \* User.uploadedModels of every user: a sequence of ids
  nextId,          \* the next id the store hands out
  last,            \* the last request handled and its response
  reply,           \* the data of the response, if the last request was a query
  inflight,        \* the requests being handled step by step: process -> state
  readyState       \* mongoose.connection.readyState

vars ==
  <<listings, uploadedModels, nextId, last, reply, inflight, readyState>>

\* the values of mongoose.connection.readyState a request finds
Disconnected == 0
Connected == 1

\* checkDatabaseConnection lets the request through, and the calls of the
\* step reach the store
StoreReady == readyState = Connected /\ UNCHANGED readyState

\* what a request that names no caller, listing or review records
NoCaller == "none"
NoId == 0
NoReview == [status |-> "none", reason |-> <<>>]

\* the query string of GET /: page and limit, each present or not
Query(page, limit) == [page |-> page, limit |-> limit]
NoQuery == Query(Undefined, Undefined)

\* the pagination object of a response that has none
NoPagination ==
  [currentPage |-> 0, totalPages |-> 0, totalModels |-> 0,
   hasNext |-> FALSE, hasPrev |-> FALSE]

\* the data of a response: the query it answers, the documents and the
\* pagination object
Data(query, models, pagination) ==
  [query |-> query, models |-> models, pagination |-> pagination]
NoReply == Data(NoQuery, <<>>, NoPagination)

\* the requests in flight are handled by these processes
Procs == {"p1", "p2"}

\* a process that handles no request
Idle == [pc |-> "idle"]

\* the status of the listing a request names, before the request
StatusOf(store, id) == IF id \in DOMAIN store THEN store[id].status ELSE "none"

\* a handled request: the operation, the caller, the listing id, whether the
\* body passes validation, the status the listing had, the status and reason
\* of a review, and the response
Request(op, caller, id, valid, was, review, resp) ==
  [op |-> op, caller |-> caller, id |-> id, valid |-> valid, was |-> was,
   target |-> review.status, reason |-> review.reason, resp |-> resp]

\* the outcome of a handler: the store it leaves and the response it sends
Outcome(store, users, resp) ==
  [listings |-> store, uploadedModels |-> users, resp |-> resp]

\* the store with document doc written under id
Put(store, id, doc) ==
  [j \in DOMAIN store \cup {id} |-> IF j = id THEN doc ELSE store[j]]

\* the store without the document of id
Remove(store, id) == [j \in DOMAIN store \ {id} |-> store[j]]

\* { $pull: { uploadedModels: id } }
RECURSIVE Pull(_, _)
Pull(seq, id) ==
  IF seq = <<>> THEN <<>>
  ELSE IF Head(seq) = id THEN Pull(Tail(seq), id)
  ELSE <<Head(seq)>> \o Pull(Tail(seq), id)

(***************************************************************************)
(* POST /api/models                                                        *)
(***************************************************************************)
\* a document whose status defaults to approved
NewDocumentApproved(value, caller) ==
  [name |-> Trim(value.name), slug |-> <<>>, uploadedBy |-> caller,
   status |-> "approved", rejectionReason |-> Undefined,
   pricing |-> value.pricing]

\* new Model({...value, uploadedBy}): the caller overrides an uploadedBy of
\* the value, and a status the value does not carry takes the schema default
NewDocument(value, caller) ==
  [name |-> Trim(value.name), slug |-> <<>>, uploadedBy |-> caller,
   status |-> IF IsDefined(value.status) THEN ValueOf(value.status)
                                         ELSE "pending",
   rejectionReason |-> Undefined, pricing |-> value.pricing]

\* a query for the name alone, whoever owns the listing
AnyoneHasName(store, caller, name) ==
  \E j \in DOMAIN store : store[j].name = name

\* Model.findOne({ name: value.name, uploadedBy: req.user._id })
OwnerHasName(store, caller, name) ==
  \E j \in DOMAIN store : store[j].name = name /\ store[j].uploadedBy = caller

CreateOutcome(caller, body, id, store, users) ==
  IF JoiError(body) THEN Outcome(store, users, ValidationError)
  ELSE IF OwnerHasName(store, caller, JoiValue(body).name)
    THEN Outcome(store, users, DuplicateError)
  ELSE LET saved == Save(NewDocument(JoiValue(body), caller), id, TRUE, store)
       IN  IF saved.ok
             THEN Outcome(Put(store, id, saved.doc),
                          [users EXCEPT ![caller] = Append(@, id)],
                          Created)
             ELSE Outcome(store, users, InternalError)

CreateListing(caller, body) ==
  /\ StoreReady
  /\ nextId <= MaxIds
  /\ \E o \in {CreateOutcome(caller, body, nextId, listings, uploadedModels)} :
         /\ listings' = o.listings
         /\ uploadedModels' = o.uploadedModels
         /\ nextId' = IF o.resp = Created THEN nextId + 1 ELSE nextId
         /\ last' = Request("createListing", caller,
                            IF o.resp = Created THEN nextId ELSE NoId,
                            ~JoiError(body), "none", NoReview, o.resp)
         /\ reply' = NoReply
         /\ UNCHANGED inflight

(***************************************************************************)
(* PUT /api/models/:id                                                     *)
(***************************************************************************)
\* an edit that leaves a rejected listing rejected
EditedWithoutReset(model, value) ==
  [model EXCEPT !.name = Trim(value.name),
                !.status = IF IsDefined(value.status)
                             THEN ValueOf(value.status) ELSE @,
                !.uploadedBy = IF IsDefined(value.uploadedBy)
                                 THEN ValueOf(value.uploadedBy) ELSE @,
                !.pricing = value.pricing]

\* Object.assign(model, value) and the reset of a rejected listing
Edited(model, value) ==
  LET assigned ==
        [model EXCEPT !.name = Trim(value.name),
                      !.status = IF IsDefined(value.status)
                                   THEN ValueOf(value.status) ELSE @,
                      !.uploadedBy = IF IsDefined(value.uploadedBy)
                                       THEN ValueOf(value.uploadedBy) ELSE @,
                      !.pricing = value.pricing]
  IN  IF assigned.status = "rejected"
        THEN [assigned EXCEPT !.status = "pending",
                              !.rejectionReason = Undefined]
        ELSE assigned

\* an update that validates the body before it looks at the status
UpdateOutcomeValidatingFirst(caller, id, body, store, users) ==
  IF ~ (id \in DOMAIN store /\ store[id].uploadedBy = caller)
    THEN Outcome(store, users, NotFoundEdit)
  ELSE IF JoiError(body) THEN Outcome(store, users, ValidationError)
  ELSE IF store[id].status = "approved"
    THEN Outcome(store, users, StateConflict)
  ELSE LET model == Edited(store[id], JoiValue(body))
           saved == Save(model, id, model.name # store[id].name, store)
       IN  IF saved.ok
             THEN Outcome(Put(store, id, saved.doc), users, Updated)
             ELSE Outcome(store, users, InternalError)

\* an update that fetches by id alone and checks the owner after the status
UpdateOutcomeStatusFirst(caller, id, body, store, users) ==
  IF id \notin DOMAIN store THEN Outcome(store, users, NotFoundEdit)
  ELSE IF store[id].status = "approved"
    THEN Outcome(store, users, StateConflict)
  ELSE IF store[id].uploadedBy # caller
    THEN Outcome(store, users, NotFoundEdit)
  ELSE IF JoiError(body) THEN Outcome(store, users, ValidationError)
  ELSE LET model == Edited(store[id], JoiValue(body))
           saved == Save(model, id, model.name # store[id].name, store)
       IN  IF saved.ok
             THEN Outcome(Put(store, id, saved.doc), users, Updated)
             ELSE Outcome(store, users, InternalError)

UpdateOutcome(caller, id, body, store, users) ==
  IF ~ (id \in DOMAIN store /\ store[id].uploadedBy = caller)
    THEN Outcome(store, users, NotFoundEdit)
  ELSE IF store[id].status = "approved"
    THEN Outcome(store, users, StateConflict)
  ELSE IF JoiError(body) THEN Outcome(store, users, ValidationError)
  ELSE LET model == Edited(store[id], JoiValue(body))
           saved == Save(model, id, model.name # store[id].name, store)
       IN  IF saved.ok
             THEN Outcome(Put(store, id, saved.doc), users, Updated)
             ELSE Outcome(store, users, InternalError)

UpdateListing(caller, id, body) ==
  /\ StoreReady
  /\ \E o \in {UpdateOutcome(caller, id, body, listings, uploadedModels)} :
      /\ listings' = o.listings
      /\ uploadedModels' = o.uploadedModels
      /\ last' = Request("updateListing", caller, id, ~JoiError(body),
                         StatusOf(listings, id), NoReview, o.resp)
      /\ reply' = NoReply
      /\ UNCHANGED <<nextId, inflight>>

(***************************************************************************)
(* DELETE /api/models/:id                                                  *)
(***************************************************************************)
\* a delete by id alone, which looks at the owner afterwards
DeleteOutcomeCheckingOwnerLate(caller, id, store, users) ==
  IF id \notin DOMAIN store THEN Outcome(store, users, NotFoundDelete)
  ELSE IF store[id].uploadedBy # caller
    THEN Outcome(Remove(store, id), users, NotFoundDelete)
    ELSE Outcome(Remove(store, id),
                 [users EXCEPT ![caller] = Pull(@, id)],
                 Deleted)

DeleteOutcome(caller, id, store, users) ==
  IF ~ (id \in DOMAIN store /\ store[id].uploadedBy = caller)
    THEN Outcome(store, users, NotFoundDelete)
    ELSE Outcome(Remove(store, id),
                 [users EXCEPT ![caller] = Pull(@, id)],
                 Deleted)

DeleteListing(caller, id) ==
  /\ StoreReady
  /\ \E o \in {DeleteOutcome(caller, id, listings, uploadedModels)} :
      /\ listings' = o.listings
      /\ uploadedModels' = o.uploadedModels
      /\ last' = Request("deleteListing", caller, id, TRUE,
                         StatusOf(listings, id), NoReview, o.resp)
      /\ reply' = NoReply
      /\ UNCHANGED <<nextId, inflight>>

(***************************************************************************)
(* PUT /api/models/admin/:id/status                                        *)
(***************************************************************************)
\* !rejectionReason
Falsy(reason) == ~IsDefined(reason) \/ ValueOf(reason) = <<>>

\* a review that leaves the reason of an earlier rejection in place
ReviewedKeepingReason(model, status, reason) ==
  [model EXCEPT !.status = status,
                !.rejectionReason =
                   IF status = "rejected" THEN Some(Trim(ValueOf(reason)))
                                          ELSE @]

\* the assignments to model.status and model.rejectionReason; the schema
\* trims the reason it is given
Reviewed(model, status, reason) ==
  [model EXCEPT !.status = status,
                !.rejectionReason =
                   IF status = "rejected" THEN Some(Trim(ValueOf(reason)))
                                          ELSE Undefined]

\* a review that honours the rule of the owners: an approved listing is
\* not changed
AdminOutcomeRefusingApproved(id, status, reason, store, users) ==
  IF status \notin Statuses THEN Outcome(store, users, InvalidStatus)
  ELSE IF status = "rejected" /\ Falsy(reason)
    THEN Outcome(store, users, ReasonRequired)
  ELSE IF id \notin DOMAIN store THEN Outcome(store, users, NotFoundAdmin)
  ELSE IF store[id].status = "approved"
    THEN Outcome(store, users, StateConflict)
  ELSE Outcome(Put(store, id, Reviewed(store[id], status, reason)), users,
               StatusSet(status))

AdminOutcome(id, status, reason, store, users) ==
  IF status \notin Statuses THEN Outcome(store, users, InvalidStatus)
  ELSE IF status = "rejected" /\ Falsy(reason)
    THEN Outcome(store, users, ReasonRequired)
  ELSE IF id \notin DOMAIN store THEN Outcome(store, users, NotFoundAdmin)
  ELSE LET saved == Save(Reviewed(store[id], status, reason), id, FALSE, store)
       IN  IF saved.ok
             THEN Outcome(Put(store, id, saved.doc), users, StatusSet(status))
             ELSE Outcome(store, users, InternalError)

AdminSetStatus(id, status, reason) ==
  /\ StoreReady
  /\ \E o \in {AdminOutcome(id, status, reason, listings, uploadedModels)} :
      /\ listings' = o.listings
      /\ uploadedModels' = o.uploadedModels
      /\ last' = Request("adminSetStatus", NoCaller, id,
                         status \in Statuses /\ ~(status = "rejected" /\ Falsy(reason)),
                         StatusOf(listings, id), Review(status, reason), o.resp)
      /\ reply' = NoReply
      /\ UNCHANGED <<nextId, inflight>>

(***************************************************************************)
(* GET /api/models and GET /api/models/:id                                 *)
(***************************************************************************)
\* const { page = 1, limit = 20 } = req.query
DefaultPage == 1
DefaultLimit == 20

\* the value of a decimal digit
DigitValue(c) == (CHOOSE i \in DOMAIN DigitChars : DigitChars[i] = c) - 1

\* the number a string of decimal digits converts to in page - 1,
\* totalModels / limit and page < totalPages
RECURSIVE ToNumber(_)
ToNumber(s) ==
  IF s = <<>> THEN 0
  ELSE 10 * ToNumber(SubSeq(s, 1, Len(s) - 1)) + DigitValue(s[Len(s)])

\* the leading run of decimal digits of a string
RECURSIVE DigitPrefix(_)
DigitPrefix(s) ==
  IF s = <<>> \/ Head(s) \notin Range(DigitChars) THEN <<>>
  ELSE <<Head(s)>> \o DigitPrefix(Tail(s))

\* parseInt of a string that starts with a digit
ParseInt(s) == ToNumber(DigitPrefix(s))

\* page and limit as numbers, and as parseInt gives them
PageNumber(query) ==
  IF IsDefined(query.page) THEN ToNumber(ValueOf(query.page)) ELSE DefaultPage
LimitNumber(query) ==
  IF IsDefined(query.limit) THEN ToNumber(ValueOf(query.limit))
                            ELSE DefaultLimit
PageInt(query) ==
  IF IsDefined(query.page) THEN ParseInt(ValueOf(query.page)) ELSE DefaultPage
LimitInt(query) ==
  IF IsDefined(query.limit) THEN ParseInt(ValueOf(query.limit))
                            ELSE DefaultLimit

\* a skip of whole pages, the first page included
SkipOfWholePages(query) == PageNumber(query) * LimitNumber(query)

\* const skip = (page - 1) * limit
SkipOf(query) == (PageNumber(query) - 1) * LimitNumber(query)

\* Math.ceil(n / d) for d >= 1
Ceil(n, d) == IF n % d = 0 THEN n \div d ELSE (n \div d) + 1

\* a filter that matches every listing
AnyStatus(store) == DOMAIN store

\* Model.find({ status: 'approved' }): the ids it matches
Approved(store) == {i \in DOMAIN store : store[i].status = "approved"}

\* .sort({ featured: -1, trendingScore: -1, createdAt: -1 }): no request sets
\* featured or trendingScore, and a later listing has the higher id
Sorted(ids) ==
  IF ids = {} THEN <<>>
  ELSE LET newest == CHOOSE i \in ids : \A j \in ids : j <= i
           Matches(i) == i \in ids
       IN  SelectSeq([k \in 1..newest |-> newest + 1 - k], Matches)

\* .skip(n) and .limit(n) of a cursor; a limit of 0 is no limit
Skip(seq, n) == SubSeq(seq, n + 1, Len(seq))
Limit(seq, n) ==
  IF n = 0 \/ n > Len(seq) THEN seq ELSE SubSeq(seq, 1, n)

\* .select('-rejectionReason') of the document of id
Selected(store, id) ==
  [id |-> id, name |-> store[id].name, slug |-> store[id].slug,
   status |-> store[id].status, uploadedBy |-> store[id].uploadedBy,
   pricing |-> store[id].pricing]

\* the document of id as findOne returns it
Document(store, id) ==
  [id |-> id, name |-> store[id].name, slug |-> store[id].slug,
   status |-> store[id].status, uploadedBy |-> store[id].uploadedBy,
   rejectionReason |-> store[id].rejectionReason,
   pricing |-> store[id].pricing]

\* the data of GET /, given the sorted ids the filter matches
ListOutcome(query, found, store) ==
  LET models == Limit(Skip(found, SkipOf(query)), LimitInt(query))
      totalModels == Len(found)
      totalPages == Ceil(totalModels, LimitNumber(query))
  IN  Data(query,
           [i \in DOMAIN models |-> Selected(store, models[i])],
           [currentPage |-> PageInt(query),
            totalPages |-> totalPages,
            totalModels |-> totalModels,
            hasNext |-> PageNumber(query) < totalPages,
            hasPrev |-> PageNumber(query) > 1])

ListListings(query) ==
  /\ StoreReady
  /\ \E found \in {Sorted(Approved(listings))} :
    /\ reply' = ListOutcome(query, found, listings)
    /\ last' = Request("listListings", NoCaller, NoId, TRUE, "none",
                       NoReview, Success)
    /\ UNCHANGED <<listings, uploadedModels, nextId, inflight>>

\* the hexadecimal digits, in the lower case
HexChars ==
  <<"0","1","2","3","4","5","6","7","8","9","a","b","c","d","e","f">>

\* the 24 hexadecimal characters an ObjectId is written as
ObjectIdHex(id) == [k \in 1..24 |-> IF k = 24 THEN HexChars[id + 1] ELSE "0"]

\* mongoose.Types.ObjectId.isValid of a string of 24 hexadecimal characters
\* or of another length than 12
IsValidObjectId(key) ==
  /\ Len(key) = 24
  /\ \A k \in DOMAIN key : LowerChar(key[k]) \in Range(HexChars)

HexValue(c) ==
  (CHOOSE i \in DOMAIN HexChars : HexChars[i] = LowerChar(c)) - 1

\* the ObjectId a string of hexadecimal characters is cast to
RECURSIVE CastObjectId(_)
CastObjectId(key) ==
  IF key = <<>> THEN 0
  ELSE 16 * CastObjectId(SubSeq(key, 1, Len(key) - 1)) + HexValue(key[Len(key)])

\* req.params.id of GET /:id, in the place of the query string
KeyQuery(key) == [key |-> key]

\* GET /:id looking the key up before it looks at its format
GetOutcomeQueryingFirst(key, store) ==
  LET id == IF IsValidObjectId(key) THEN CastObjectId(key) ELSE NoId
  IN  IF id \in DOMAIN store /\ store[id].status = "approved"
        THEN [id |-> id, resp |-> Success, models |-> <<Document(store, id)>>]
        ELSE [id |-> id, resp |-> NotFoundPublic, models |-> <<>>]

\* GET /:id: ObjectId.isValid(id), then
\* Model.findOne({ _id: id, status: 'approved' })
GetOutcome(key, store) ==
  IF ~IsValidObjectId(key)
    THEN [id |-> NoId, resp |-> InvalidId, models |-> <<>>]
    ELSE LET id == CastObjectId(key)
         IN  IF id \in DOMAIN store /\ store[id].status = "approved"
               THEN [id |-> id, resp |-> Success,
                     models |-> <<Document(store, id)>>]
               ELSE [id |-> id, resp |-> NotFoundPublic, models |-> <<>>]

GetListing(key) ==
  /\ StoreReady
  /\ \E o \in {GetOutcome(key, listings)} :
       /\ reply' = Data(KeyQuery(key), o.models, NoPagination)
       /\ last' = Request("getListing", NoCaller, o.id, IsValidObjectId(key),
                          StatusOf(listings, o.id), NoReview, o.resp)
  /\ UNCHANGED <<listings, uploadedModels, nextId, inflight>>

\* a document of GET /my-models: .select('-uploadedBy')
OwnDocument(store, id) ==
  [id |-> id, name |-> store[id].name, slug |-> store[id].slug,
   status |-> store[id].status,
   rejectionReason |-> store[id].rejectionReason,
   pricing |-> store[id].pricing]

\* GET /my-models: Model.find({ uploadedBy: req.user._id })
\* .sort({ createdAt: -1 }); count is the length of models
ListOwnerListings(caller) ==
  /\ StoreReady
  /\ \E found \in {Sorted({i \in DOMAIN listings :
                             listings[i].uploadedBy = caller})} :
       reply' = Data(NoQuery, [k \in DOMAIN found |->
                                 OwnDocument(listings, found[k])],
                     NoPagination)
  /\ last' = Request("listOwnerListings", caller, NoId, TRUE, "none",
                     NoReview, Success)
  /\ UNCHANGED <<listings, uploadedModels, nextId, inflight>>

(***************************************************************************)
(* The specification: requests are handled one at a time.                  *)
(***************************************************************************)
Init ==
  /\ listings = << >>
  /\ uploadedModels = [u \in Users |-> << >>]
  /\ nextId = 1
  /\ last = Request("none", NoCaller, NoId, TRUE, "none", NoReview,
                    Response(0, "none"))
  /\ reply = NoReply
  /\ inflight = [p \in Procs |-> Idle]
  /\ readyState = Connected

Next ==
  \/ \E caller \in Users, body \in Payloads : CreateListing(caller, body)
  \/ \E caller \in Users, id \in Ids, body \in Payloads :
       UpdateListing(caller, id, body)
  \/ \E caller \in Users, id \in Ids : DeleteListing(caller, id)
  \/ \E id \in Ids, review \in Reviews :
       AdminSetStatus(id, review.status, review.reason)

Spec == Init /\ [][Next]_vars

\* the same handlers, with the requests that exercise slug generation
NextSlug ==
  \/ \E caller \in Users, body \in SlugPayloads : CreateListing(caller, body)
  \/ \E caller \in Users, id \in Ids, body \in SlugPayloads :
       UpdateListing(caller, id, body)
  \/ \E caller \in Users, id \in Ids : DeleteListing(caller, id)
  \/ \E id \in Ids, review \in SlugReviews :
       AdminSetStatus(id, review.status, review.reason)

SpecSlug == Init /\ [][NextSlug]_vars

\* the requests of the owners alone, with two names of one base slug
SuffixPayloads ==
  {Payload(Some(NameGpt4Dash), Undefined), Payload(Some(NameGpt4Bang), Undefined)}

NextSuffix ==
  \/ \E caller \in Users, body \in SuffixPayloads : CreateListing(caller, body)
  \/ \E caller \in Users, id \in Ids, body \in SuffixPayloads :
       UpdateListing(caller, id, body)
  \/ \E caller \in Users, id \in Ids : DeleteListing(caller, id)

SpecSuffix == Init /\ [][NextSuffix]_vars

(***************************************************************************)
(* The handlers step by step: every await of a handler is a step of the    *)
(* process that handles the request, and the steps of two requests         *)
(* interleave.                                                             *)
(***************************************************************************)
\* a request in flight: where its handler stands, the request, the status
\* and the copy of the listing it fetched, the document it is about to
\* save, and the locals of the hook
Handling(pc, op, caller, id, review, fetched, doc) ==
  [pc |-> pc, op |-> op, caller |-> caller, id |-> id, review |-> review,
   fetched |-> fetched, doc |-> doc,
   slug |-> BaseSlug(doc.name), counter |-> 1, probes |-> 0]

\* where save() starts: in the loop of the hook, or at the write
SaveAt(doc, nameModified) ==
  IF nameModified \/ doc.slug = <<>> THEN "probe" ELSE "write"

\* the response is sent: the process is free again
Answer(p, request) ==
  /\ last' = request
  /\ reply' = NoReply
  /\ inflight' = [inflight EXCEPT ![p] = Idle]

\* the handler answers before its first await returns a document to work on
AnswerAtOnce(p, request) ==
  /\ Answer(p, request)
  /\ UNCHANGED <<listings, uploadedModels, nextId>>

\* the handler goes on to its next await
Goto(p, state) ==
  /\ inflight' = [inflight EXCEPT ![p] = state]
  /\ UNCHANGED <<last, reply>>

\* POST /: validation, the query for the owner's listing of that name, and
\* new Model, which draws the _id
StartCreate(p, caller, body) ==
  /\ StoreReady
  /\ inflight[p] = Idle
  /\ nextId <= MaxIds
  /\ IF JoiError(body)
       THEN AnswerAtOnce(p, Request("createListing", caller, NoId, FALSE,
                                    "none", NoReview, ValidationError))
     ELSE IF OwnerHasName(listings, caller, JoiValue(body).name)
       THEN AnswerAtOnce(p, Request("createListing", caller, NoId, TRUE,
                                    "none", NoReview, DuplicateError))
     ELSE /\ \E doc \in {NewDocument(JoiValue(body), caller)} :
               Goto(p, Handling("probe", "createListing", caller, nextId,
                                NoReview, doc, doc))
          /\ nextId' = nextId + 1
          /\ UNCHANGED <<listings, uploadedModels>>

\* a probe that does not exclude the document's own id
ProbeSlugProbingSelf(p) ==
  /\ StoreReady
  /\ inflight[p].pc = "probe"
  /\ \E h \in {inflight[p]} :
       IF \E j \in DOMAIN listings : listings[j].slug = h.slug
         THEN Goto(p, [h EXCEPT !.slug = Suffixed(BaseSlug(h.doc.name), h.counter),
                                !.counter = h.counter + 1,
                                !.probes = h.probes + 1])
         ELSE Goto(p, [h EXCEPT !.pc = "write",
                                !.doc.slug = SlugSetter(h.slug),
                                !.probes = h.probes + 1])
  /\ UNCHANGED <<listings, uploadedModels, nextId>>

\* a probe whose query leaves out the slug: any other listing is a collision
ProbeSlugMatchingAny(p) ==
  /\ StoreReady
  /\ inflight[p].pc = "probe"
  /\ \E h \in {inflight[p]} :
       IF \E j \in DOMAIN listings : j # h.id
         THEN Goto(p, [h EXCEPT !.slug = Suffixed(BaseSlug(h.doc.name), h.counter),
                                !.counter = h.counter + 1,
                                !.probes = h.probes + 1])
         ELSE Goto(p, [h EXCEPT !.pc = "write",
                                !.doc.slug = SlugSetter(h.slug),
                                !.probes = h.probes + 1])
  /\ UNCHANGED <<listings, uploadedModels, nextId>>

\* one turn of the loop of the hook: findOne({ slug, _id: { $ne: _id } })
ProbeSlug(p) ==
  /\ StoreReady
  /\ inflight[p].pc = "probe"
  /\ \E h \in {inflight[p]} :
       IF \E j \in DOMAIN listings : listings[j].slug = h.slug /\ j # h.id
         THEN Goto(p, [h EXCEPT !.slug = Suffixed(BaseSlug(h.doc.name), h.counter),
                                !.counter = h.counter + 1,
                                !.probes = h.probes + 1])
         ELSE Goto(p, [h EXCEPT !.pc = "write",
                                !.doc.slug = SlugSetter(h.slug),
                                !.probes = h.probes + 1])
  /\ UNCHANGED <<listings, uploadedModels, nextId>>

\* the paths save() writes: those whose value differs from the fetched copy
Written(stored, fetched, doc) ==
  [name |-> IF doc.name # fetched.name THEN doc.name ELSE stored.name,
   slug |-> IF doc.slug # fetched.slug THEN doc.slug ELSE stored.slug,
   uploadedBy |-> IF doc.uploadedBy # fetched.uploadedBy
                    THEN doc.uploadedBy ELSE stored.uploadedBy,
   status |-> IF doc.status # fetched.status THEN doc.status ELSE stored.status,
   rejectionReason |-> IF doc.rejectionReason # fetched.rejectionReason
                         THEN doc.rejectionReason ELSE stored.rejectionReason,
   pricing |-> IF doc.pricing # fetched.pricing
                 THEN doc.pricing ELSE stored.pricing]

\* the response of a save that succeeded
Saved(h) ==
  IF h.op = "updateListing" THEN Updated ELSE StatusSet(h.review.status)

\* the request a process in flight answers with resp
Answered(h, resp) ==
  Request(h.op, h.caller,
          IF h.op = "createListing" /\ resp # Created THEN NoId ELSE h.id,
          TRUE,
          IF h.op = "createListing" THEN "none" ELSE h.fetched.status,
          h.review, resp)

\* the write of save(): the insert of a new document, or the update of the
\* modified paths of a fetched one; the unique index on slug may refuse
\* either, and the update fails if the document is gone
WriteListing(p) ==
  /\ StoreReady
  /\ inflight[p].pc = "write"
  /\ \E h \in {inflight[p]} :
       IF h.op = "createListing"
         THEN IF SlugIndexAccepts(h.doc, h.id, listings)
                THEN /\ listings' = Put(listings, h.id, h.doc)
                     /\ Goto(p, [h EXCEPT !.pc = "push"])
                ELSE /\ Answer(p, Answered(h, InternalError))
                     /\ UNCHANGED listings
       ELSE IF h.id \notin DOMAIN listings
         THEN /\ Answer(p, Answered(h, InternalError))
              /\ UNCHANGED listings
       ELSE \E doc \in {Written(listings[h.id], h.fetched, h.doc)} :
              IF SlugIndexAccepts(doc, h.id, listings)
                THEN /\ listings' = Put(listings, h.id, doc)
                     /\ Answer(p, Answered(h, Saved(h)))
                ELSE /\ Answer(p, Answered(h, InternalError))
                     /\ UNCHANGED listings
  /\ UNCHANGED <<uploadedModels, nextId>>

\* User.findByIdAndUpdate(caller, { $push: { uploadedModels: model._id } })
PushListing(p) ==
  /\ StoreReady
  /\ inflight[p].pc = "push"
  /\ uploadedModels' =
       [uploadedModels EXCEPT ![inflight[p].caller] = Append(@, inflight[p].id)]
  /\ Answer(p, Answered(inflight[p], Created))
  /\ UNCHANGED <<listings, nextId>>

\* PUT /:id up to save()
StartUpdate(p, caller, id, body) ==
  /\ StoreReady
  /\ inflight[p] = Idle
  /\ IF ~ (id \in DOMAIN listings /\ listings[id].uploadedBy = caller)
       THEN AnswerAtOnce(p, Request("updateListing", caller, id, ~JoiError(body),
                                    StatusOf(listings, id), NoReview, NotFoundEdit))
     ELSE IF listings[id].status = "approved"
       THEN AnswerAtOnce(p, Request("updateListing", caller, id, ~JoiError(body),
                                    "approved", NoReview, StateConflict))
     ELSE IF JoiError(body)
       THEN AnswerAtOnce(p, Request("updateListing", caller, id, FALSE,
                                    StatusOf(listings, id), NoReview,
                                    ValidationError))
     ELSE /\ \E doc \in {Edited(listings[id], JoiValue(body))} :
               Goto(p, Handling(SaveAt(doc, doc.name # listings[id].name),
                                "updateListing", caller, id, NoReview,
                                listings[id], doc))
          /\ UNCHANGED <<listings, uploadedModels, nextId>>

\* PUT /admin/:id/status up to save()
StartAdmin(p, id, status, reason) ==
  /\ StoreReady
  /\ inflight[p] = Idle
  /\ IF status \notin Statuses
       THEN AnswerAtOnce(p, Request("adminSetStatus", NoCaller, id, FALSE,
                                    StatusOf(listings, id),
                                    Review(status, reason), InvalidStatus))
     ELSE IF status = "rejected" /\ Falsy(reason)
       THEN AnswerAtOnce(p, Request("adminSetStatus", NoCaller, id, FALSE,
                                    StatusOf(listings, id),
                                    Review(status, reason), ReasonRequired))
     ELSE IF id \notin DOMAIN listings
       THEN AnswerAtOnce(p, Request("adminSetStatus", NoCaller, id, TRUE,
                                    "none", Review(status, reason),
                                    NotFoundAdmin))
     ELSE /\ \E doc \in {Reviewed(listings[id], status, reason)} :
               Goto(p, Handling(SaveAt(doc, FALSE), "adminSetStatus", NoCaller,
                                id, Review(status, reason), listings[id], doc))
          /\ UNCHANGED <<listings, uploadedModels, nextId>>

\* DELETE /:id up to findByIdAndDelete
StartDelete(p, caller, id) ==
  /\ StoreReady
  /\ inflight[p] = Idle
  /\ IF ~ (id \in DOMAIN listings /\ listings[id].uploadedBy = caller)
       THEN AnswerAtOnce(p, Request("deleteListing", caller, id, TRUE,
                                    StatusOf(listings, id), NoReview,
                                    NotFoundDelete))
       ELSE /\ Goto(p, Handling("remove", "deleteListing", caller, id,
                                NoReview, listings[id], listings[id]))
            /\ UNCHANGED <<listings, uploadedModels, nextId>>

\* Model.findByIdAndDelete(id)
RemoveListing(p) ==
  /\ StoreReady
  /\ inflight[p].pc = "remove"
  /\ listings' = Remove(listings, inflight[p].id)
  /\ Goto(p, [inflight[p] EXCEPT !.pc = "pull"])
  /\ UNCHANGED <<uploadedModels, nextId>>

\* User.findByIdAndUpdate(caller, { $pull: { uploadedModels: id } })
PullListing(p) ==
  /\ StoreReady
  /\ inflight[p].pc = "pull"
  /\ uploadedModels' =
       [uploadedModels EXCEPT ![inflight[p].caller] = Pull(@, inflight[p].id)]
  /\ Answer(p, Answered(inflight[p], Deleted))
  /\ UNCHANGED <<listings, nextId>>

RacePayloads ==
  {Payload(Some(NameGpt4Dash), Undefined), Payload(Some(NameGpt4Bang), Undefined)}
RaceReviews ==
  {Review("approved", Undefined), Review("pending", Undefined),
   Review("rejected", Some(ReasonTooNiche))}

\* creations and deletions in flight together
NextCreateRace ==
  \/ \E p \in Procs, caller \in Users, body \in RacePayloads :
       StartCreate(p, caller, body)
  \/ \E p \in Procs : ProbeSlug(p)
  \/ \E p \in Procs : WriteListing(p)
  \/ \E p \in Procs : PushListing(p)
  \/ \E p \in Procs, caller \in Users, id \in Ids : StartDelete(p, caller, id)
  \/ \E p \in Procs : RemoveListing(p)
  \/ \E p \in Procs : PullListing(p)

SpecCreateRace == Init /\ [][NextCreateRace]_vars

\* one request at a time, handled step by step: no concurrent writer
Solo == "p1"

NextSolo ==
  \/ \E caller \in Users, body \in SuffixPayloads :
       StartCreate(Solo, caller, body)
  \/ ProbeSlug(Solo)
  \/ WriteListing(Solo)
  \/ PushListing(Solo)
  \/ \E caller \in Users, id \in Ids, body \in SuffixPayloads :
       StartUpdate(Solo, caller, id, body)
  \/ \E caller \in Users, id \in Ids : StartDelete(Solo, caller, id)
  \/ RemoveListing(Solo)
  \/ PullListing(Solo)

SpecSolo == Init /\ [][NextSolo]_vars

(***************************************************************************)
(* The connection to the store goes and comes back while one process       *)
(* handles requests step by step.                                          *)
(***************************************************************************)
Disconnect ==
  /\ readyState = Connected
  /\ readyState' = Disconnected
  /\ UNCHANGED <<listings, uploadedModels, nextId, last, reply, inflight>>

Reconnect ==
  /\ readyState = Disconnected
  /\ readyState' = Connected
  /\ UNCHANGED <<listings, uploadedModels, nextId, last, reply, inflight>>

OutageOps == {"createListing", "updateListing", "deleteListing"}

\* checkDatabaseConnection refuses a request that arrives while the store
\* is not connected
RefuseUnready(op, caller) ==
  /\ readyState # Connected
  /\ last' = Request(op, caller, NoId, TRUE, "none", NoReview, Unavailable)
  /\ reply' = NoReply
  /\ UNCHANGED <<listings, uploadedModels, nextId, inflight, readyState>>

\* the call a handler awaits is rejected, the store being out of reach
\* (bufferCommands: false), and the catch block of the handler answers
StorageThrows(p) ==
  /\ inflight[p] # Idle
  /\ readyState # Connected
  /\ Answer(p, Answered(inflight[p], InternalError))
  /\ UNCHANGED <<listings, uploadedModels, nextId, readyState>>

NextOutage ==
  \/ \E caller \in Users, body \in SuffixPayloads :
       StartCreate(Solo, caller, body)
  \/ ProbeSlug(Solo)
  \/ WriteListing(Solo)
  \/ PushListing(Solo)
  \/ \E caller \in Users, id \in Ids, body \in SuffixPayloads :
       StartUpdate(Solo, caller, id, body)
  \/ \E caller \in Users, id \in Ids : StartDelete(Solo, caller, id)
  \/ RemoveListing(Solo)
  \/ PullListing(Solo)
  \/ Disconnect
  \/ Reconnect
  \/ \E op \in OutageOps, caller \in Users : RefuseUnready(op, caller)
  \/ StorageThrows(Solo)

SpecOutage == Init /\ [][NextOutage]_vars

EditRacePayloads == {Payload(Some(NameGpt4Dash), Undefined)}

\* edits and reviews in flight together, of listings created one at a time;
\* no edit changes the name, so that no save runs the loop of the hook
NextEditRace ==
  \/ \E caller \in Users, body \in EditRacePayloads :
       (\A p \in Procs : inflight[p] = Idle) /\ CreateListing(caller, body)
  \/ \E p \in Procs, caller \in Users, id \in Ids, body \in EditRacePayloads :
       StartUpdate(p, caller, id, body)
  \/ \E p \in Procs, id \in Ids, review \in RaceReviews :
       StartAdmin(p, id, review.status, review.reason)
  \/ \E p \in Procs : WriteListing(p)

SpecEditRace == Init /\ [][NextEditRace]_vars

(***************************************************************************)
(* Creates and updates whose body carries a pricing key or none.           *)
(***************************************************************************)
PricingInputs == {Undefined, Some("paid"), Some("gratis")}

FramePayloads ==
  {PricedPayload(Some(NameGpt4Dash), pricing) : pricing \in PricingInputs}

FrameReviews == {Review("approved", Undefined),
                 Review("rejected", Some(ReasonTooNiche))}

NextFrame ==
  \/ \E caller \in Users, body \in FramePayloads : CreateListing(caller, body)
  \/ \E caller \in Users, id \in Ids, body \in FramePayloads :
       UpdateListing(caller, id, body)
  \/ \E caller \in Users, id \in Ids : DeleteListing(caller, id)
  \/ \E id \in Ids, review \in FrameReviews :
       AdminSetStatus(id, review.status, review.reason)

SpecFrame == Init /\ [][NextFrame]_vars

(***************************************************************************)
(* The public queries next to the requests that change the store.          *)
(***************************************************************************)
QueryPayloads == {Payload(Some(NameGpt4Dash), Undefined)}
QueryReviews ==
  {Review("approved", Undefined), Review("pending", Undefined),
   Review("rejected", Some(ReasonTooNiche))}

\* page and limit of at least 1, as decimal strings
Queries ==
  {Query(page, limit) : page \in {Undefined, Some(<<"1">>), Some(<<"2">>)},
                        limit \in {Undefined, Some(<<"1">>)}}

\* the keys GET /:id is asked for: the ids as ObjectIds, the slug of the
\* listings and a string that is neither
QueryKeys ==
  {ObjectIdHex(i) : i \in Ids} \cup {BaseSlug(NameGpt4Dash), <<"4","2">>}

NextQuery ==
  \/ \E caller \in Users, body \in QueryPayloads : CreateListing(caller, body)
  \/ \E caller \in Users, id \in Ids, body \in QueryPayloads :
       UpdateListing(caller, id, body)
  \/ \E caller \in Users, id \in Ids : DeleteListing(caller, id)
  \/ \E id \in Ids, review \in QueryReviews :
       AdminSetStatus(id, review.status, review.reason)
  \/ \E query \in Queries : ListListings(query)
  \/ \E key \in QueryKeys : GetListing(key)
  \/ \E caller \in Users : ListOwnerListings(caller)

SpecQuery == Init /\ [][NextQuery]_vars

(***************************************************************************)
(* Pagination over a collection of n approved listings.                    *)
(***************************************************************************)
PagingCounts == {0, 1, 95, 150}
PagingPages ==
  {Undefined, Some(<<"1">>), Some(<<"2">>), Some(<<"5">>), Some(<<"6">>)}
PagingLimits ==
  {Undefined, Some(<<"1">>), Some(<<"2", "0">>), Some(<<"1", "0", "0">>),
   Some(<<"1", "0", "1">>)}

\* the i-th of the listings u1 created and the admin approved
ApprovedListing(i) ==
  [name |-> <<"M">> \o Decimal(i), slug |-> <<"m">> \o Decimal(i),
   uploadedBy |-> "u1", status |-> "approved", rejectionReason |-> Undefined,
   pricing |-> DefaultPricing]

InitPaging ==
  \E n \in PagingCounts :
    /\ listings = [i \in 1..n |-> ApprovedListing(i)]
    /\ uploadedModels = [u \in Users |-> IF u = "u1" THEN [i \in 1..n |-> i]
                                                     ELSE << >>]
    /\ nextId = n + 1
    /\ last = Request("none", NoCaller, NoId, TRUE, "none", NoReview,
                      Response(0, "none"))
    /\ reply = NoReply
    /\ inflight = [p \in Procs |-> Idle]
    /\ readyState = Connected

NextPaging ==
  \E page \in PagingPages, limit \in PagingLimits :
    ListListings(Query(page, limit))

SpecPaging == InitPaging /\ [][NextPaging]_vars

TypeOK ==
  /\ DOMAIN listings \subseteq Ids
  /\ nextId \in 1..(MaxIds + 1)
  /\ \A i \in DOMAIN listings : listings[i].status \in Statuses

(***************************************************************************)
(* Properties.                                                             *)
(***************************************************************************)
Persisted == DOMAIN listings

\* the listing the last request named is persisted
LastListed == last.id \in Persisted

\* C1: no two persisted listings have the same slug, also when two
\* different names reduce to the same base slug
SlugUnique ==
  \A i, j \in Persisted : i # j => listings[i].slug # listings[j].slug

\* two persisted listings with different names and the same base slug, the
\* later one carrying the suffix -1
SlugCollisionResolved ==
  \E i, j \in Persisted :
    /\ i < j
    /\ listings[i].name # listings[j].name
    /\ BaseSlug(listings[i].name) = BaseSlug(listings[j].name)
    /\ listings[i].slug = BaseSlug(listings[i].name)
    /\ listings[j].slug = Suffixed(BaseSlug(listings[j].name), 1)

\* C2: a persisted listing has a rejectionReason if and only if its status
\* is rejected
ReasonIffRejected ==
  \A i \in Persisted :
    IsDefined(listings[i].rejectionReason) <=> listings[i].status = "rejected"

\* a review has just moved a rejected listing, which had a reason, to another
\* status
RejectedListingReviewed ==
  /\ last.op = "adminSetStatus"
  /\ last.was = "rejected"
  /\ last.target \in {"approved", "pending"}
  /\ last.resp = StatusSet(last.target)
  /\ LastListed

\* C3: a step changes the status of a persisted listing only if it is a
\* review of that listing or a successful update of that listing by its owner
\* that takes it from rejected to pending
StatusChangedOnlyByReviewOrReset ==
  [][\A i \in Persisted \cap DOMAIN listings' :
       listings'[i].status # listings[i].status =>
         \/ /\ last'.op = "adminSetStatus"
            /\ last'.id = i
            /\ last'.resp = StatusSet(listings'[i].status)
         \/ /\ last'.op = "updateListing"
            /\ last'.id = i
            /\ last'.caller = listings[i].uploadedBy
            /\ last'.resp = Updated
            /\ listings[i].status = "rejected"
            /\ listings'[i].status = "pending"]_vars

\* the owner has just updated a rejected listing, which is pending now
OwnerResetRejected ==
  /\ last.op = "updateListing"
  /\ last.resp = Updated
  /\ last.was = "rejected"
  /\ LastListed
  /\ listings[last.id].status = "pending"

\* C4: an update by the owner of an approved listing answers with the state
\* conflict, whatever the body, and changes nothing
ApprovedListingProtected ==
  [][(/\ last'.op = "updateListing"
      /\ last'.id \in Persisted
      /\ listings[last'.id].uploadedBy = last'.caller
      /\ listings[last'.id].status = "approved")
       => /\ last'.resp = StateConflict
          /\ listings' = listings
          /\ uploadedModels' = uploadedModels]_vars

\* the owner has just sent an invalid body for an approved listing
ApprovedUpdateRefused ==
  /\ last.op = "updateListing"
  /\ last.was = "approved"
  /\ ~last.valid
  /\ LastListed
  /\ listings[last.id].uploadedBy = last.caller

\* C5: a delete by the owner of an approved listing is refused and the
\* listing stays persisted
ApprovedListingNotDeleted ==
  (last.op = "deleteListing" /\ last.was = "approved")
    => last.resp # Deleted /\ LastListed

\* C6: an update or delete by a caller who is not the owner of the listing
\* answers as it answers for an id no listing has, and changes nothing
OwnershipIsolation ==
  [][(/\ last'.op \in {"updateListing", "deleteListing"}
      /\ last'.id \in Persisted
      /\ listings[last'.id].uploadedBy # last'.caller)
       => /\ listings' = listings
          /\ uploadedModels' = uploadedModels
          /\ last'.resp.status = 404
          /\ last'.op = "updateListing" =>
               \A body \in Payloads :
                 last'.resp = UpdateOutcome(last'.caller, NoId, body,
                                            listings, uploadedModels).resp
          /\ last'.op = "deleteListing" =>
               last'.resp = DeleteOutcome(last'.caller, NoId,
                                          listings, uploadedModels).resp]_vars

\* a caller who is not the owner has just tried to update an approved listing
NonOwnerUpdateOfApproved ==
  /\ last.op = "updateListing"
  /\ last.was = "approved"
  /\ LastListed
  /\ listings[last.id].uploadedBy # last.caller

\* C7: a successful update of a rejected listing leaves it pending with no
\* rejectionReason, and a successful update of a pending listing leaves it
\* pending
RejectedEditResets ==
  [][(last'.op = "updateListing" /\ last'.resp = Updated)
       => /\ last'.id \in Persisted \cap DOMAIN listings'
          /\ listings[last'.id].status \in {"rejected", "pending"}
          /\ listings'[last'.id].status = "pending"
          /\ listings[last'.id].status = "rejected"
               => ~IsDefined(listings'[last'.id].rejectionReason)]_vars

\* the owner has just updated a listing that was rejected with a reason
RejectedListingEdited ==
  /\ last.op = "updateListing"
  /\ last.resp = Updated
  /\ last.was = "rejected"
  /\ LastListed
  /\ ~IsDefined(listings[last.id].rejectionReason)

\* C8: a review with an invalid status, or to rejected with no reason, is a
\* validation error that changes nothing; a review to rejected with a
\* non-empty reason r of a persisted listing succeeds and stores r
ReviewStoresGivenReason ==
  [][last'.op = "adminSetStatus" =>
       /\ (last'.target \notin Statuses
             \/ (last'.target = "rejected" /\ Falsy(last'.reason)))
            => /\ last'.resp.status = 400
               /\ listings' = listings
       /\ (/\ last'.target = "rejected"
           /\ ~Falsy(last'.reason)
           /\ last'.id \in Persisted)
            => /\ last'.resp = StatusSet("rejected")
               /\ listings'[last'.id].status = "rejected"
               /\ listings'[last'.id].rejectionReason = last'.reason]_vars

\* C9: no two persisted listings of the same owner have the same name
NameUniquePerOwner ==
  \A i, j \in Persisted :
    (i # j /\ listings[i].uploadedBy = listings[j].uploadedBy)
      => listings[i].name # listings[j].name

\* ^[a-z0-9]+(-[a-z0-9]+)*$
MatchesSlugPattern(slug) ==
  /\ slug # <<>>
  /\ \A k \in DOMAIN slug : IsSlugChar(slug[k]) \/ slug[k] = "-"
  /\ slug[1] # "-"
  /\ slug[Len(slug)] # "-"
  /\ \A k \in 1..(Len(slug) - 1) : ~(slug[k] = "-" /\ slug[k + 1] = "-")

\* C10: the slug of every persisted listing is non-empty and matches
\* ^[a-z0-9]+(-[a-z0-9]+)*$
SlugWellFormed ==
  \A i \in Persisted : MatchesSlugPattern(listings[i].slug)

\* the slugs the listings other than id hold
OtherSlugs(store, id) == {store[j].slug : j \in DOMAIN store \ {id}}

\* C13: no step changes the uploadedBy of a persisted listing, and a listing
\* that appears is owned by the caller of the createListing that made it
OwnerNeverChanges ==
  [][/\ \A i \in Persisted \cap DOMAIN listings' :
          listings'[i].uploadedBy = listings[i].uploadedBy
     /\ \A i \in DOMAIN listings' \ Persisted :
          /\ last'.op = "createListing"
          /\ listings'[i].uploadedBy = last'.caller]_vars

\* the owner of an editable listing has just sent a body that validation
\* refused, and still owns the listing
OwnerBodyRefused ==
  /\ last.op = "updateListing"
  /\ last.resp = ValidationError
  /\ LastListed
  /\ listings[last.id].uploadedBy = last.caller

CreatePersistsPending ==
  [][(last'.op = "createListing" /\ last'.resp = Created)
       => /\ last'.id \notin Persisted
          /\ DOMAIN listings' = Persisted \cup {last'.id}
          /\ \A i \in Persisted : listings'[i] = listings[i]
          /\ listings'[last'.id].status = "pending"
          /\ ~IsDefined(listings'[last'.id].rejectionReason)
          /\ listings'[last'.id].uploadedBy = last'.caller]_vars

\* a listing has just been created
ListingCreated ==
  /\ last.op = "createListing"
  /\ last.resp = Created
  /\ LastListed
  /\ listings[last.id].status = "pending"

\* C14: every item GET / returns is an approved listing, and GET /:id
\* asked for a well-formed id returns a listing only if it is approved and
\* answers not found otherwise
PublicSeesApprovedOnly ==
  [][/\ last'.op = "listListings" =>
          \A i \in DOMAIN reply'.models :
             /\ reply'.models[i].status = "approved"
             /\ reply'.models[i].id \in Persisted
             /\ listings[reply'.models[i].id].status = "approved"
     /\ (last'.op = "getListing" /\ last'.valid) =>
          IF last'.id \in Persisted /\ listings[last'.id].status = "approved"
            THEN /\ last'.resp = Success
                 /\ reply'.models = <<Document(listings, last'.id)>>
            ELSE /\ last'.resp = NotFoundPublic
                 /\ reply'.models = <<>>]_vars

\* GET / has just left out a listing that is not approved and returned one
\* that is
UnapprovedListingHidden ==
  /\ last.op = "listListings"
  /\ Len(reply.models) = 1
  /\ \E i \in Persisted : listings[i].status # "approved"

\* the smallest t with t * L >= n
PagesFor(n, L) == CHOOSE t \in 0..n : t * L >= n /\ (t = 0 \/ (t - 1) * L < n)

\* the positions from..to of a sequence, none if from > to
Positions(seq, from, to) == [i \in 1..(to - from + 1) |-> seq[from + i - 1]]

\* the smaller of two numbers
Min(a, b) == IF a < b THEN a ELSE b

\* the page GET / has to return for page p and page size L
PageOf(found, p, L, data) ==
  LET n == Len(found)
  IN  /\ data.pagination.totalModels = n
      /\ data.pagination.totalPages = PagesFor(n, L)
      /\ data.pagination.currentPage = p
      /\ data.pagination.hasNext = (p < PagesFor(n, L))
      /\ data.pagination.hasPrev = (p > 1)
      /\ [i \in DOMAIN data.models |-> data.models[i].id]
           = Positions(found, (p - 1) * L + 1, Min(p * L, n))

\* the page and the limit a query asks for, as the reader of the query means
\* them
AskedPage(query) ==
  IF IsDefined(query.page) THEN ToNumber(ValueOf(query.page)) ELSE 1
AskedLimit(query) ==
  IF IsDefined(query.limit) THEN ToNumber(ValueOf(query.limit)) ELSE 20

MaxLimit == 100

\* C20: the page size is clamped to 100: for a requested limit above 100,
\* GET / returns at most 100 items and computes the skip and totalPages with
\* a limit of 100
LimitClamped ==
  (last.op = "listListings" /\ AskedLimit(reply.query) > MaxLimit) =>
    /\ Len(reply.models) <= MaxLimit
    /\ \A found \in {Sorted({i \in Persisted : listings[i].status = "approved"})} :
         PageOf(found, AskedPage(reply.query), MaxLimit, reply)

\* process p has just had the write of its createListing refused
InsertRefused(p) ==
  /\ inflight[p].pc = "write"
  /\ inflight[p].op = "createListing"
  /\ inflight'[p] = Idle

\* C11: when two creations with the same base slug both probe before
\* either persists, no two persisted listings share a slug, and the creation
\* the unique index refuses is answered with a conflict the caller can
\* retry, not with the generic failure
SlugRaceLoserToldToRetry ==
  [][/\ \A i, j \in DOMAIN listings' :
          i # j => listings'[i].slug # listings'[j].slug
     /\ \A p \in Procs : InsertRefused(p) => last'.resp # InternalError]_vars

\* process p is about to save a document whose status its handler has
\* assigned, and the request answered last was of the other kind, on the
\* same listing, and has changed the listing since p fetched it
PersistsLast(p) ==
  /\ inflight[p].pc = "write"
  /\ \/ inflight[p].op = "adminSetStatus"
     \/ inflight[p].op = "updateListing" /\ inflight[p].fetched.status = "rejected"
  /\ last.op \in {"updateListing", "adminSetStatus"} \ {inflight[p].op}
  /\ last.id = inflight[p].id
  /\ last.resp.status = 200
  /\ inflight[p].id \in Persisted
  /\ listings[inflight[p].id] # inflight[p].fetched
  /\ inflight'[p] = Idle

\* C12: when an owner's update and an admin's review of one listing both
\* fetch before either persists, both are answered without error and the
\* listing ends with the status and rejectionReason of the one that
\* persists last
LastPersistWins ==
  [][\A p \in Procs :
       PersistsLast(p) =>
         /\ last'.resp.status = 200
         /\ listings'[inflight[p].id].status = inflight[p].doc.status
         /\ listings'[inflight[p].id].rejectionReason
              = inflight[p].doc.rejectionReason]_vars

\* C16: a createListing by an owner who has a listing of exactly that name
\* is answered with the duplicate error at the check, before any probe:
\* nothing is persisted and no back-reference changes; a creation that goes
\* on to probe is of a name the caller has no listing of, whoever else has
DuplicateRefusedBeforeProbe ==
  [][/\ (last'.op = "createListing" /\ last'.resp = DuplicateError
           /\ last' # last)
          => /\ inflight' = inflight
             /\ UNCHANGED <<listings, uploadedModels>>
             /\ \E j \in Persisted : listings[j].uploadedBy = last'.caller
     /\ \A p \in Procs :
          /\ (inflight[p] # Idle /\ inflight'[p] = Idle)
               => last'.resp # DuplicateError
          /\ (inflight[p] = Idle /\ inflight'[p] # Idle
                /\ inflight'[p].op = "createListing")
               => /\ inflight'[p].probes = 0
                  /\ ~ \E j \in Persisted :
                         /\ listings[j].name = inflight'[p].doc.name
                         /\ listings[j].uploadedBy = inflight'[p].caller]_vars

\* an owner has just been refused a second listing of a name that another
\* owner has a listing of too
DuplicateNameRefused ==
  /\ last.op = "createListing"
  /\ last.resp = DuplicateError
  /\ \E i, j \in Persisted :
       /\ listings[i].uploadedBy = last.caller
       /\ listings[j].uploadedBy # last.caller
       /\ listings[i].name = listings[j].name

\* C18: whenever no createListing and no deleteListing is in progress, the
\* uploadedModels of every user holds exactly the ids of the persisted
\* listings the user uploaded
BackReferenceExact ==
  (\A p \in Procs :
     inflight[p] = Idle \/ inflight[p].op \notin {"createListing", "deleteListing"})
    => \A u \in Users :
         Range(uploadedModels[u]) = {i \in Persisted : listings[i].uploadedBy = u}

\* C25: adminSetStatus with a valid target, and a non-empty reason when
\* the target is rejected, succeeds on a persisted listing whatever its
\* status: the listing takes the target, and a target that is not rejected
\* clears the rejectionReason
AdminTransitionsExempt ==
  [][(/\ last'.op = "adminSetStatus"
      /\ last'.id \in Persisted
      /\ last'.target \in Statuses
      /\ last'.target = "rejected"
           => IsDefined(last'.reason) /\ ValueOf(last'.reason) # <<>>)
       => /\ last'.resp = StatusSet(last'.target)
          /\ last'.was = listings[last'.id].status
          /\ listings'[last'.id].status = last'.target
          /\ last'.target # "rejected"
               => ~IsDefined(listings'[last'.id].rejectionReason)
          /\ last'.target = "rejected"
               => IsDefined(listings'[last'.id].rejectionReason)]_vars

\* the review that has just been answered moved a listing from one status to
\* another
Moved(from, to) ==
  /\ last.op = "adminSetStatus"
  /\ last.was = from
  /\ last.target = to
  /\ last.resp = StatusSet(to)
  /\ LastListed
  /\ listings[last.id].status = to

\* an approved listing has just been sent back to pending
ApprovedSentBack ==
  Moved("approved", "pending") /\ ~IsDefined(listings[last.id].rejectionReason)

\* the responses that report a validation, not-found, state-conflict or
\* duplicate error
ErrorResponses ==
  {ValidationError, DuplicateError, NotFoundEdit, StateConflict,
   NotFoundDelete, InvalidStatus, ReasonRequired, NotFoundAdmin}

\* C29: a createListing, updateListing, deleteListing or adminSetStatus that
\* answers with a validation, not-found, state-conflict or duplicate error
\* leaves every listing and every user's uploadedModels as they were
ErrorsChangeNothing ==
  [][last'.resp \in ErrorResponses
       => /\ listings' = listings
          /\ uploadedModels' = uploadedModels]_vars

\* a user has just been refused the deletion of another user's listing,
\* which is still persisted
ForeignDeleteRefused ==
  /\ last.op = "deleteListing"
  /\ last.resp = NotFoundDelete
  /\ LastListed
  /\ listings[last.id].uploadedBy # last.caller

\* the slug the algorithm has to give for a base slug, given the slugs the
\* other listings hold: the base slug if free, else the base slug with the
\* smallest suffix k >= 1 that is free
FirstFree(base, held) ==
  IF base \notin held THEN base
  ELSE Suffixed(base,
                CHOOSE k \in 1..(Cardinality(held) + 1) :
                  /\ Suffixed(base, k) \notin held
                  /\ \A m \in 1..(k - 1) : Suffixed(base, m) \in held)

\* C26: a successful updateListing that leaves the name unchanged leaves the
\* slug unchanged; one that changes the name sets the slug to the result of
\* the slug algorithm on the new name, the slugs of the other listings alone
\* counting as held
RenameRegeneratesSlug ==
  [][\A p \in Procs :
       (/\ inflight[p].pc = "write"
        /\ inflight[p].op = "updateListing"
        /\ inflight'[p] = Idle
        /\ last'.resp = Updated)
         => \A id \in {inflight[p].id} :
              IF listings'[id].name = listings[id].name
                THEN listings'[id].slug = listings[id].slug
                ELSE listings'[id].slug
                       = FirstFree(BaseSlug(listings'[id].name),
                                   OtherSlugs(listings, id))]_vars

\* the hook has run for a rename to a name of the listing's own base slug
\* and has kept the slug
RenamedOntoOwnSlug ==
  \E p \in Procs :
    /\ inflight[p].pc = "write"
    /\ inflight[p].op = "updateListing"
    /\ inflight[p].doc.name # inflight[p].fetched.name
    /\ inflight[p].probes = 1
    /\ inflight[p].doc.slug = inflight[p].fetched.slug

\* C27: with n persisted listings and no concurrent writer, the loop of the
\* hook has made at most n probes while it runs and at most n + 1 when it
\* has stopped, and it stops at the first candidate no other listing holds
ProbesBounded ==
  \A p \in Procs :
    /\ inflight[p].pc = "probe" => inflight[p].probes <= Cardinality(Persisted)
    /\ (inflight[p].pc = "write" /\ inflight[p].probes > 0)
         => /\ inflight[p].probes <= Cardinality(Persisted) + 1
            /\ inflight[p].doc.slug
                 = FirstFree(BaseSlug(inflight[p].doc.name),
                             OtherSlugs(listings, inflight[p].id))

\* the loop has stopped after n + 1 probes: every persisted listing held
\* a candidate
LoopStoppedAtBound ==
  \E p \in Procs :
    /\ inflight[p].pc = "write"
    /\ inflight[p].probes >= 2
    /\ inflight[p].probes = Cardinality(Persisted) + 1
    /\ inflight[p].doc.slug # BaseSlug(inflight[p].doc.name)

\* C30: also when reviews, or a review and an owner's update, of one
\* listing are in flight together and each saves the paths it changed, once
\* they are answered no listing is approved or pending with a
\* rejectionReason, or rejected without one
ReasonIffRejectedInterleaved ==
  (\A p \in Procs : inflight[p] = Idle)
    => \A i \in Persisted :
         /\ listings[i].status \in {"approved", "pending"}
              => ~IsDefined(listings[i].rejectionReason)
         /\ listings[i].status = "rejected"
              => IsDefined(listings[i].rejectionReason)

\* whether an item of a response carries a rejection reason
ShowsReason(item) ==
  /\ "rejectionReason" \in DOMAIN item
  /\ IsDefined(item.rejectionReason)

\* C21: no item that GET /, GET /:id or GET /my-models returns carries a
\* rejection reason
NoReasonShown ==
  last.op \in {"listListings", "getListing", "listOwnerListings"} =>
    \A i \in DOMAIN reply.models : ~ShowsReason(reply.models[i])

\* C22: GET /:id asked for the slug of an approved listing returns that
\* listing
SlugKeyFindsListing ==
  last.op = "getListing" =>
    \A i \in Persisted :
      (listings[i].status = "approved" /\ listings[i].slug = reply.query.key)
        => /\ last.resp = Success
           /\ reply.models = <<Document(listings, i)>>

\* the strings of 24 characters out of 0-9, a-f and A-F
WellFormedId(key) ==
  /\ Len(key) = 24
  /\ \A k \in DOMAIN key :
       key[k] \in {"0","1","2","3","4","5","6","7","8","9",
                   "a","b","c","d","e","f","A","B","C","D","E","F"}

OmittedFieldsKept ==
  [][\A caller \in Users, id \in Ids, body \in FramePayloads :
       (/\ UpdateListing(caller, id, body)
        /\ last'.resp = Updated
        /\ ~IsDefined(body.pricing))
         => listings'[id].pricing = listings[id].pricing]_vars

\* C24: a request that fails while the store is out of reach, on arrival
\* or in the middle of its handler, is answered with the response that
\* says so
OutageSurfaced ==
  [][(readyState # Connected /\ readyState' # Connected)
       => \/ last' = last /\ inflight' = inflight
          \/ last'.resp = Unavailable]_vars

\* C31: a creation that persists a listing, however its steps interleave
\* with those of another creation, gives its owner no second listing of a
\* name the owner has a listing of
RacingCreatesKeepNameUnique ==
  [][\A i \in DOMAIN listings' :
       i \notin Persisted =>
         ~\E j \in Persisted :
            /\ listings[j].uploadedBy = listings'[i].uploadedBy
            /\ listings[j].name = listings'[i].name]_vars

====
